---------------------------- MODULE Spec2Model ----------------------------
(***************************************************************************)
(* Dataset curation pipeline of quality_selector_game:                     *)
(*   scripts/auto_annotate.py        get_bounding_box_from_alpha,          *)
(*                                   create_yolo_dataset, process_image    *)
(*   scripts/split_dataset.py        split_dataset                         *)
(*   scripts/remove_background.py    process_folder (colour threshold)     *)
(*   scripts/remove_background_ai.py process_folder (learned matting)      *)
(* One script runs per behaviour; prog says which.                         *)
(***************************************************************************)
EXTENDS Integers, Sequences, FiniteSets, TLC

VARIABLES
    prog,             \* the script being run: "bbox" | "batch" | "split" | "yolo"
    \* ---- get_bounding_box_from_alpha
    image_path,       \* the image file handed to the analyzer
    bbox,             \* its return value, or Unset before the call
    \* ---- process_folder (both background-removal variants)
    variant,          \* "threshold" | "ai"
    image_files,      \* the input listing (sequence of file names)
    transform_fails,  \* the inputs whose transform raises
    transform_hangs,  \* the inputs on which the matting call never returns
    output_files,     \* the output folder: names present
    pf_pc,            \* "submit" | "collect" | "done"
    submit_ix,        \* next index of the submission loop
    futures,          \* index -> "none" | "queued" | "running" | "ok" | "failed"
    collected,        \* futures already yielded by as_completed
    success_count,
    fail_count,
    fail_log,         \* the printed failure lines, by input identity
    max_workers,
    \* ---- random module (process-global generator)
    rng,
    \* ---- split_dataset
    sd_listing,       \* source folder listing (iterdir order)
    sd_source,        \* source folder: name -> content | Absent
    sd_train,         \* train folder:  name -> content | Absent
    sd_val,           \* val folder:    name -> content | Absent
    sd_before,        \* both destination folders as they were before the first run
    sd_calls,         \* the calls made so far: arguments and computed subsets
    \* ---- create_yolo_dataset
    yolo_src,         \* class -> Missing | sequence of source files
    out_images,       \* split -> (name -> image | NoFile)
    out_labels,       \* split -> (name -> label record | NoFile)
    before_images,    \* out_images as they were before the first run
    data_yaml,        \* NoFile | the manifest
    yolo_pc,          \* "start" | "classes" | "images" | "manifest" | "done" | "raised"
    class_ix,         \* position in the class loop ['healthy', 'diseased']
    queue,            \* images of the current class still to process
    failed_images,
    total_images,
    total_annotated,
    seed,
    val_ratio,        \* in percent
    splits,           \* class -> [computed, train_files, val_files] of this run
    prev_splits,      \* the same of the previous run
    processed,        \* source paths handed to process_image in this run
    run_no,
    restaged          \* the class whose source folder was changed before this run, or "none"

bboxVars  == <<image_path, bbox>>
batchVars == <<variant, image_files, transform_fails, transform_hangs, output_files, pf_pc,
               submit_ix, futures, collected, success_count, fail_count, fail_log,
               max_workers>>
splitVars == <<sd_listing, sd_source, sd_train, sd_val, sd_before, sd_calls>>
yoloVars  == <<yolo_src, out_images, out_labels, before_images, data_yaml, yolo_pc,
               class_ix, queue, failed_images, total_images, total_annotated, seed,
               val_ratio, splits, prev_splits, processed, run_no, restaged>>
vars == <<prog, bboxVars, batchVars, rng, splitVars, yoloVars>>

\* a return value not yet there, a file that does not exist (by content kind:
\* a string for the split folders, a record for the corpus), a folder that does not
Unset   == [kind |-> "unset"]
Absent  == "absent"
NoFile  == [kind |-> "absent"]
Missing == [exists |-> FALSE, files |-> <<>>]
Folder(files) == [exists |-> TRUE, files |-> files]

----------------------------------------------------------------------------
(* Bounds of the model.                                                    *)

\* images analysed pixel by pixel have at most this many pixels
MaxPixels == 5
\* files in one class folder of create_yolo_dataset
MaxFiles == 2
\* image files in the source folder of split_dataset
MaxImages == 3
\* input files of one process_folder run
MaxBatch == 3
\* states of the abstract random generator
RngStates == 16
\* split_dataset calls in one behaviour
MaxCalls == 2
\* create_yolo_dataset runs in one behaviour
MaxRuns == 2

----------------------------------------------------------------------------
(* Exact fractions <<numerator, denominator>>, denominator > 0.            *)

Frac(n, d) == <<n, d>>
FLe(a, b)  == a[1] * b[2] <= b[1] * a[2]
FEq(a, b)  == a[1] * b[2] = b[1] * a[2]
FLt(a, b)  == a[1] * b[2] < b[1] * a[2]
FAdd(a, b) == <<a[1] * b[2] + b[1] * a[2], a[2] * b[2]>>
FSub(a, b) == <<a[1] * b[2] - b[1] * a[2], a[2] * b[2]>>
FHalf(a)   == <<a[1], 2 * a[2]>>

SetMin(S) == CHOOSE m \in S : \A n \in S : m <= n
SetMax(S) == CHOOSE m \in S : \A n \in S : m >= n

----------------------------------------------------------------------------
(* get_bounding_box_from_alpha  (auto_annotate.py 15-59)                   *)

\* A pixel is [b, g, r, a]; a is read only when the image has 4 channels.
Pixel(v, a) == [b |-> v, g |-> v, r |-> v, a |-> a]

\* An image file: decodable or not; channels = 1 stands for a 2-D array
\* (cv2.IMREAD_UNCHANGED of a single-channel file), whose shape has no [2].
Coords(w, h) == (0 .. w - 1) \X (0 .. h - 1)

Palette(ch) ==
    CASE ch = 4 -> {Pixel(255, 0), Pixel(255, 1), Pixel(255, 255)}
      [] ch = 3 -> {Pixel(0, 255), Pixel(10, 255), Pixel(11, 255), Pixel(255, 255)}
      [] OTHER  -> {Pixel(0, 255), Pixel(255, 255)}

Shapes == {s \in (1 .. MaxPixels) \X (1 .. MaxPixels) :
              s[1] * s[2] <= MaxPixels}

CorruptImage == [decodable |-> FALSE, w |-> 0, h |-> 0, channels |-> 0, px |-> <<>>]

Images ==
    {CorruptImage} \cup
    UNION {UNION {{[decodable |-> TRUE, w |-> s[1], h |-> s[2], channels |-> ch, px |-> f] :
                       f \in [Coords(s[1], s[2]) -> Palette(ch)]} : s \in Shapes} :
           ch \in {1, 3, 4}}

\* cv2.cvtColor(img, cv2.COLOR_BGR2GRAY): 14-bit fixed point, rounded
Gray(p) == (1868 * p.b + 9617 * p.g + 4899 * p.r + 8192) \div 16384

\* cv2.threshold(gray, 10, 255, cv2.THRESH_BINARY)
Threshold(g) == IF g > 10 THEN 255 ELSE 0

\* lines 35-41: the single-channel mask handed to findContours
AlphaOf(img) ==
    IF img.channels = 4
    THEN [c \in DOMAIN img.px |-> img.px[c].a]
    ELSE [c \in DOMAIN img.px |-> Threshold(Gray(img.px[c]))]

\* findContours treats every non-zero pixel as foreground
Foreground(alpha) == {c \in DOMAIN alpha : alpha[c] # 0}

Adjacent(c, d) ==
    /\ c # d
    /\ c[1] - d[1] \in {-1, 0, 1}
    /\ c[2] - d[2] \in {-1, 0, 1}

RECURSIVE Grow(_, _)
Grow(comp, fg) ==
    LET more == {d \in fg \ comp : \E c \in comp : Adjacent(c, d)}
    IN  IF more = {} THEN comp ELSE Grow(comp \cup more, fg)

\* cv2.findContours(alpha, RETR_EXTERNAL, CHAIN_APPROX_SIMPLE): one contour per
\* 8-connected foreground blob, its points being border pixels of the blob
\* (every extreme pixel of a blob is a border pixel).
FindContours(alpha) ==
    LET fg == Foreground(alpha)
        blob(c) == Grow({c}, fg)
        border(b) == {c \in b : \E d \in {<<c[1] - 1, c[2]>>, <<c[1] + 1, c[2]>>,
                                          <<c[1], c[2] - 1>>, <<c[1], c[2] + 1>>} : d \notin b}
    IN  {border(blob(c)) : c \in fg}

\* row-major order of pixels
ScanLe(c, d) == c[2] < d[2] \/ (c[2] = d[2] /\ c[1] <= d[1])

\* only one contour kept: the blob met first in scan order
FirstContourOnly(contours) ==
    CHOOSE k \in contours : \E c \in k : \A o \in contours : \A d \in o : ScanLe(c, d)

\* np.vstack(contours), line 50
VStack(contours) == UNION contours

\* cv2.boundingRect(points): x, y, bw, bh with inclusive pixel extents
BoundingRect(points) ==
    LET xs == {c[1] : c \in points}
        ys == {c[2] : c \in points}
    IN  [x |-> SetMin(xs), y |-> SetMin(ys),
         bw |-> SetMax(xs) - SetMin(xs) + 1, bh |-> SetMax(ys) - SetMin(ys) + 1]

None == [kind |-> "none"]
IndexError == [kind |-> "raise"]

GetBoundingBoxFromAlpha(img) ==
    IF ~img.decodable THEN None                          \* 29-30
    ELSE IF img.channels = 1 THEN IndexError             \* 35: img.shape[2]
    ELSE LET contours == FindContours(AlphaOf(img))
         IN  IF contours = {} THEN None                  \* 46-47
             ELSE LET r == BoundingRect(VStack(contours))
                  IN  [kind     |-> "box",
                       x_center |-> Frac(2 * r.x + r.bw, 2 * img.w),   \* (x + bw/2) / w
                       y_center |-> Frac(2 * r.y + r.bh, 2 * img.h),
                       width    |-> Frac(r.bw, img.w),
                       height   |-> Frac(r.bh, img.h)]

----------------------------------------------------------------------------
(* The random module.  CPython's Mersenne Twister is abstracted by a small *)
(* linear congruential generator: what the scripts rely on is only that    *)
(* seed() fixes the whole state and every draw advances it.                *)

\* the generator of a new process is seeded by the system: some state or other
FreshRng == {0, RngStates - 1}

\* the generator left as it was (no reseeding)
SeedOmitted(s) == rng

\* random.seed(seed)
Seed(s) == s % RngStates

RngStep(s) == (5 * s + 3) % RngStates

\* random._randbelow(n) on state s (already advanced)
RandBelow(n, s) == (s \div 2) % n

Swap(x, i, j) == [x EXCEPT ![i] = x[j], ![j] = x[i]]

\* random.shuffle(x): for i in reversed(range(1, len(x))): j = randbelow(i + 1); swap
RECURSIVE ShuffleFrom(_, _, _)
ShuffleFrom(x, i, s) ==
    IF i < 2 THEN [list |-> x, rng |-> s]
    ELSE LET s2 == RngStep(s)
             j  == RandBelow(i, s2) + 1
         IN  ShuffleFrom(Swap(x, i, j), i - 1, s2)

Shuffle(x, s) == ShuffleFrom(x, Len(x), s)

\* int(total * val_ratio) rounded up instead of truncated
ValCountCeil(total, ratio) == (total * ratio + 99) \div 100

\* int(len(images) * val_ratio), val_ratio given in percent
ValCount(total, ratio) == (total * ratio) \div 100

\* images[:val_count], images[val_count:]   (Python slices clamp)
ValSlice(x, val_count)   == SubSeq(x, 1, IF val_count > Len(x) THEN Len(x) ELSE val_count)
TrainSlice(x, val_count) == SubSeq(x, (IF val_count > Len(x) THEN Len(x) ELSE val_count) + 1, Len(x))

Range(x) == {x[i] : i \in DOMAIN x}
Distinct(x) == \A i, j \in DOMAIN x : i # j => x[i] # x[j]

\* sequences without repetition over S, of length at most n
Listings(S, n) == UNION {{x \in [1 .. k -> S] : Distinct(x)} : k \in 0 .. n}

Seeds       == {42, 7}
SplitRatios == {0, 20, 50, 100}
YoloRatios  == {20, 50}
\* main calls create_yolo_dataset with its default seed
YoloSeeds   == {42}

----------------------------------------------------------------------------
(* split_dataset  (split_dataset.py 14-76)                                 *)

ImageNames == 1 .. MaxImages

\* shutil.copy2(img, dest) whatever is at dest
CopyOverwrite(dir, name, content) == [dir EXCEPT ![name] = content]

\* the copy made without looking whether dest exists
CopyWithoutCheck(dir, name, content) == [dir EXCEPT ![name] = content]

\* if not dest.exists(): shutil.copy2(img, dest)      (64-66, 71-73)
CopyIfAbsent(dir, name, content) ==
    IF dir[name] = Absent THEN [dir EXCEPT ![name] = content] ELSE dir

RECURSIVE CopyAll(_, _, _)
CopyAll(dir, imgs, src) ==
    IF imgs = <<>> THEN dir
    ELSE CopyAll(CopyIfAbsent(dir, Head(imgs), src[Head(imgs)]), Tail(imgs), src)

EmptyDir(names) == [n \in names |-> Absent]

InitSplit ==
    /\ sd_listing \in Listings(ImageNames, MaxImages)
    /\ sd_source = [n \in ImageNames |-> IF n \in Range(sd_listing) THEN "fresh" ELSE Absent]
    /\ \E stale \in SUBSET {1} :
          \E d \in {"train", "val"} :
             /\ sd_train = [n \in ImageNames |-> IF n \in stale /\ d = "train" THEN "stale" ELSE Absent]
             /\ sd_val   = [n \in ImageNames |-> IF n \in stale /\ d = "val" THEN "stale" ELSE Absent]
    /\ sd_before = [train |-> sd_train, val |-> sd_val]
    /\ sd_calls = <<>>

IdleSplit ==
    /\ sd_listing = <<>>
    /\ sd_source = EmptyDir(ImageNames)
    /\ sd_train = EmptyDir(ImageNames)
    /\ sd_val = EmptyDir(ImageNames)
    /\ sd_before = [train |-> sd_train, val |-> sd_val]
    /\ sd_calls = <<>>

\* One call split_dataset(source, train, val, ratio, sd) by main (100-126).
SplitDataset(ratio, sd) ==
    /\ prog = "split"
    /\ Len(sd_calls) < MaxCalls
    /\ LET images == sd_listing                                       \* 35-38
       IN  IF images = <<>>
           THEN /\ sd_calls' = Append(sd_calls,                       \* 40-42
                       [images |-> images, val_ratio |-> ratio, seed |-> sd,
                        train_images |-> <<>>, val_images |-> <<>>, ret |-> <<0, 0>>])
                /\ UNCHANGED <<rng, sd_train, sd_val>>
           ELSE LET sh           == Shuffle(images, Seed(sd))         \* 45-46
                    total        == Len(images)
                    val_count    == ValCount(total, ratio)            \* 50
                    train_count  == total - val_count
                    val_images   == ValSlice(sh.list, val_count)      \* 54
                    train_images == TrainSlice(sh.list, val_count)    \* 55
                IN  /\ rng' = sh.rng
                    /\ sd_val' = CopyAll(sd_val, val_images, sd_source)        \* 63-66
                    /\ sd_train' = CopyAll(sd_train, train_images, sd_source)  \* 70-73
                    /\ sd_calls' = Append(sd_calls,
                          [images |-> images, val_ratio |-> ratio, seed |-> sd,
                           train_images |-> train_images, val_images |-> val_images,
                           ret |-> <<train_count, val_count>>])
    /\ UNCHANGED <<prog, bboxVars, batchVars, yoloVars, sd_listing, sd_source, sd_before>>

SplitNext == \E ratio \in SplitRatios, sd \in Seeds : SplitDataset(ratio, sd)

\* x with e put in at position k
InsertAt(x, k, e) == SubSeq(x, 1, k - 1) \o <<e>> \o SubSeq(x, k, Len(x))

\* between two runs an image is added to the source folder; iterdir may list it
\* at any place
SplitAddImage(n, k) ==
    /\ prog = "split"
    /\ sd_calls # <<>>
    /\ Len(sd_calls) < MaxCalls
    /\ n \notin Range(sd_listing)
    /\ k \in 1 .. Len(sd_listing) + 1
    /\ sd_listing' = InsertAt(sd_listing, k, n)
    /\ sd_source' = [sd_source EXCEPT ![n] = "fresh"]
    /\ UNCHANGED <<prog, bboxVars, batchVars, rng, yoloVars, sd_train, sd_val, sd_before,
                   sd_calls>>

----------------------------------------------------------------------------
(* create_yolo_dataset and process_image  (auto_annotate.py 62-206)        *)

\* classes = ['diseased', 'healthy']                         (76)
Classes == <<"diseased", "healthy">>
\* for class_name in ['healthy', 'diseased']                 (104)
ClassLoop == <<"healthy", "diseased">>
ClassSet == {"diseased", "healthy"}
SplitSet == {"train", "val"}

IndexOf(x, e) == CHOOSE i \in DOMAIN x : x[i] = e

\* the index a class would get from the order of the processing loop
ClassToIdLoopOrder(c) == IndexOf(ClassLoop, c) - 1

\* class_to_id = {cls: idx for idx, cls in enumerate(classes)}   (77)
ClassToId(c) == IndexOf(Classes, c) - 1

\* 'names': {i: name for i, name in enumerate(classes)}          (159)
ManifestNames == [i \in 0 .. Len(Classes) - 1 |-> Classes[i + 1]]

OnePixel(a) ==
    [decodable |-> TRUE, w |-> 1, h |-> 1, channels |-> 4,
     px |-> [c \in Coords(1, 1) |-> Pixel(255, a)]]
\* a fully transparent cut-out, an opaque one, and the content of an older output
BlankImage == OnePixel(0)
AppleImage == OnePixel(255)
StaleImage == OnePixel(1)
SampleImages == {CorruptImage, BlankImage, AppleImage}

OutNames == ClassSet \X (1 .. MaxFiles)
FolderContents == {Missing} \cup UNION {{Folder(f) : f \in [1 .. k -> SampleImages]} : k \in 0 .. MaxFiles}

\* the outcome of the file operations of one process_image call
IOOutcomes == {"ok", "copy_fails", "label_fails"}

Label(class_id, bb) == [class_id |-> class_id, bbox |-> bb]

NoSplit == [computed |-> FALSE, train_files |-> <<>>, val_files |-> <<>>]
NoSplits == [c \in ClassSet |-> NoSplit]

\* the folders and arguments at the first call, but for the seed
YoloEntry ==
    /\ yolo_src \in [ClassSet -> FolderContents]
    /\ val_ratio \in YoloRatios
    /\ \E stale \in BOOLEAN :
          /\ out_images = [s \in SplitSet |-> [n \in OutNames |->
                 IF stale /\ s = "train" /\ n = <<"healthy", 1>> THEN StaleImage ELSE NoFile]]
          /\ out_labels = [s \in SplitSet |-> [n \in OutNames |->
                 IF stale /\ s = "train" /\ n = <<"healthy", 1>>
                 THEN Label(1, GetBoundingBoxFromAlpha(StaleImage)) ELSE NoFile]]
    /\ before_images = out_images
    /\ data_yaml = NoFile
    /\ yolo_pc = "start"
    /\ class_ix = 1
    /\ queue = <<>>
    /\ failed_images = <<>>
    /\ total_images = 0
    /\ total_annotated = 0
    /\ splits = NoSplits
    /\ prev_splits = NoSplits
    /\ processed = {}
    /\ run_no = 1
    /\ restaged = "none"

InitYolo ==
    /\ seed \in YoloSeeds
    /\ YoloEntry

\* the same with either seed
InitYoloSeeds ==
    /\ seed \in Seeds
    /\ YoloEntry

IdleYolo ==
    /\ yolo_src = [c \in ClassSet |-> Missing]
    /\ seed = 42
    /\ val_ratio = 20
    /\ out_images = [s \in SplitSet |-> [n \in OutNames |-> NoFile]]
    /\ out_labels = [s \in SplitSet |-> [n \in OutNames |-> NoFile]]
    /\ before_images = out_images
    /\ data_yaml = NoFile
    /\ yolo_pc = "idle"
    /\ class_ix = 1
    /\ queue = <<>>
    /\ failed_images = <<>>
    /\ total_images = 0
    /\ total_annotated = 0
    /\ splits = NoSplits
    /\ prev_splits = NoSplits
    /\ processed = {}
    /\ run_no = 1
    /\ restaged = "none"

yoloInputs == <<yolo_src, seed, val_ratio, before_images, restaged>>

\* lines 72-102: directories made, generator seeded, counters cleared
YoloStart ==
    /\ prog = "yolo"
    /\ yolo_pc = "start"
    /\ rng' = Seed(seed)                                              \* 98
    /\ total_images' = 0
    /\ total_annotated' = 0
    /\ failed_images' = <<>>
    /\ class_ix' = 1
    /\ yolo_pc' = "classes"
    /\ UNCHANGED <<prog, bboxVars, batchVars, splitVars, yoloInputs, out_images, out_labels,
                   data_yaml, queue, splits, prev_splits, processed, run_no>>

Tagged(files, split) == [i \in DOMAIN files |-> [stem |-> files[i], split |-> split]]

\* lines 104-124: one turn of the class loop up to the split
YoloClass ==
    /\ prog = "yolo"
    /\ yolo_pc = "classes"
    /\ class_ix <= Len(ClassLoop)
    /\ LET class_name == ClassLoop[class_ix]
       IN  IF ~yolo_src[class_name].exists
           THEN /\ class_ix' = class_ix + 1                           \* 106-108: continue
                /\ UNCHANGED <<rng, queue, splits, yolo_pc>>
           ELSE LET image_list  == [i \in DOMAIN yolo_src[class_name].files |-> i]     \* 113
                    sh          == Shuffle(image_list, rng)                      \* 114
                    val_count   == ValCount(Len(image_list), val_ratio)          \* 117
                    val_files   == ValSlice(sh.list, val_count)                  \* 118
                    train_files == TrainSlice(sh.list, val_count)                \* 119
                    todo        == Tagged(train_files, "train") \o Tagged(val_files, "val")
                IN  /\ rng' = sh.rng
                    /\ splits' = [splits EXCEPT ![class_name] =
                                     [computed |-> TRUE, train_files |-> train_files,
                                      val_files |-> val_files]]
                    /\ queue' = todo
                    /\ IF todo = <<>>
                       THEN class_ix' = class_ix + 1 /\ yolo_pc' = "classes"
                       ELSE class_ix' = class_ix /\ yolo_pc' = "images"
    /\ UNCHANGED <<prog, bboxVars, batchVars, splitVars, yoloInputs, out_images, out_labels,
                   data_yaml, failed_images, total_images, total_annotated, prev_splits,
                   processed, run_no>>

\* lines 127-150 for one image, with the process_image call (182-206)
YoloImage(io) ==
    /\ prog = "yolo"
    /\ yolo_pc = "images"
    /\ queue # <<>>
    /\ LET class_name == ClassLoop[class_ix]
           item       == Head(queue)
           img_path   == <<class_name, item.stem>>
           img        == yolo_src[class_name].files[item.stem]
           bb         == GetBoundingBoxFromAlpha(img)                 \* 187
           new_name   == <<class_name, item.stem>>                    \* 195
           copied     == [out_images EXCEPT ![item.split] =
                             CopyOverwrite(out_images[item.split], new_name, img)]   \* 199
           labelled   == [out_labels EXCEPT ![item.split][new_name] =
                             Label(ClassToId(class_name), bb)]        \* 203-204
           next_pc    == IF Tail(queue) = <<>> THEN "classes" ELSE "images"
           next_ix    == IF Tail(queue) = <<>> THEN class_ix + 1 ELSE class_ix
       IN  /\ processed' = processed \cup {img_path}
           /\ CASE bb.kind = "none" ->                                \* 189-190, 136-137
                     /\ total_images' = total_images + 1
                     /\ failed_images' = Append(failed_images, img_path)
                     /\ queue' = Tail(queue)
                     /\ yolo_pc' = next_pc
                     /\ class_ix' = next_ix
                     /\ UNCHANGED <<out_images, out_labels, total_annotated>>
                [] bb.kind = "raise" \/ (bb.kind = "box" /\ io = "copy_fails") ->
                     /\ yolo_pc' = "raised"
                     /\ UNCHANGED <<out_images, out_labels, total_images, total_annotated,
                                    failed_images, queue, class_ix>>
                [] bb.kind = "box" /\ io = "label_fails" ->
                     /\ out_images' = copied
                     /\ yolo_pc' = "raised"
                     /\ UNCHANGED <<out_labels, total_images, total_annotated,
                                    failed_images, queue, class_ix>>
                [] OTHER ->
                     /\ out_images' = copied
                     /\ out_labels' = labelled
                     /\ total_images' = total_images + 1
                     /\ total_annotated' = total_annotated + 1
                     /\ queue' = Tail(queue)
                     /\ yolo_pc' = next_pc
                     /\ class_ix' = next_ix
                     /\ UNCHANGED failed_images
    /\ UNCHANGED <<prog, bboxVars, batchVars, rng, splitVars, yoloInputs, data_yaml, splits,
                   prev_splits, run_no>>

\* lines 154-172: the manifest and the closing summary
YoloManifest ==
    /\ prog = "yolo"
    /\ yolo_pc = "classes"
    /\ class_ix > Len(ClassLoop)
    /\ data_yaml' = [path |-> "output_path", train |-> "images/train", val |-> "images/val",
                     names |-> ManifestNames]
    /\ yolo_pc' = "done"
    /\ UNCHANGED <<prog, bboxVars, batchVars, rng, splitVars, yoloInputs, out_images,
                   out_labels, class_ix, queue, failed_images, total_images, total_annotated,
                   splits, prev_splits, processed, run_no>>

\* the script started again on the same folders, in a new process, after a run
\* that came to its end
YoloRerun ==
    /\ prog = "yolo"
    /\ yolo_pc = "done"
    /\ run_no < MaxRuns
    /\ run_no' = run_no + 1
    /\ rng' \in FreshRng
    /\ prev_splits' = splits
    /\ splits' = NoSplits
    /\ processed' = {}
    /\ queue' = <<>>
    /\ failed_images' = <<>>
    /\ total_images' = 0
    /\ total_annotated' = 0
    /\ class_ix' = 1
    /\ yolo_pc' = "start"
    /\ restaged' = "none"
    /\ UNCHANGED <<prog, bboxVars, batchVars, splitVars, yolo_src, seed, val_ratio,
                   before_images, out_images, out_labels, data_yaml>>

\* the same after the source folder of class c was changed to f (files added or
\* removed, the folder made or deleted); the other class's folder is as it was
YoloRestage(c, f) ==
    /\ prog = "yolo"
    /\ yolo_pc = "done"
    /\ run_no < MaxRuns
    /\ f # yolo_src[c]
    /\ yolo_src' = [yolo_src EXCEPT ![c] = f]
    /\ restaged' = c
    /\ run_no' = run_no + 1
    /\ rng' \in FreshRng
    /\ prev_splits' = splits
    /\ splits' = NoSplits
    /\ processed' = {}
    /\ queue' = <<>>
    /\ failed_images' = <<>>
    /\ total_images' = 0
    /\ total_annotated' = 0
    /\ class_ix' = 1
    /\ yolo_pc' = "start"
    /\ UNCHANGED <<prog, bboxVars, batchVars, splitVars, seed, val_ratio, before_images,
                   out_images, out_labels, data_yaml>>

YoloNext ==
    \/ YoloStart
    \/ YoloClass
    \/ \E io \in IOOutcomes : YoloImage(io)
    \/ YoloManifest
    \/ YoloRerun

----------------------------------------------------------------------------
(* process_folder  (remove_background.py 54-119, remove_background_ai.py   *)
(* 41-114) with its workers remove_white_background / remove_background_ai *)

\* input file names <<stem, extension>>: one stem under three of the accepted
\* extensions, another under one
BatchNames == {<<1, "jpg">>, <<1, "png">>, <<1, "jpeg">>, <<2, "png">>}
Stems == {n[1] : n \in BatchNames}

\* output_path / (img_file.stem + '.png')
OutputFile(name) == name[1]

\* the state at the call of process_folder, but for the transforms' outcomes
PfEntry ==
    /\ image_files \in Listings(BatchNames, MaxBatch)
    /\ output_files \in SUBSET {1}
    /\ max_workers \in {1, 2}
    /\ pf_pc = "start"
    /\ submit_ix = 1
    /\ futures = [i \in DOMAIN image_files |-> "none"]
    /\ collected = {}
    /\ success_count = 0
    /\ fail_count = 0
    /\ fail_log = <<>>

\* a run in which every transform call returns or raises
InitBatch ==
    /\ variant \in {"threshold", "ai"}
    /\ PfEntry
    /\ transform_fails \in SUBSET Range(image_files)
    /\ transform_hangs = {}

\* a learned-matting run in which remove(input_data) may not return on some inputs
InitMatting ==
    /\ variant = "ai"
    /\ PfEntry
    /\ transform_hangs \in SUBSET Range(image_files)
    /\ transform_fails \in SUBSET (Range(image_files) \ transform_hangs)

IdleBatch ==
    /\ variant = "threshold"
    /\ image_files = <<>>
    /\ transform_fails = {}
    /\ transform_hangs = {}
    /\ output_files = {}
    /\ max_workers = 1
    /\ pf_pc = "idle"
    /\ submit_ix = 1
    /\ futures = <<>>
    /\ collected = {}
    /\ success_count = 0
    /\ fail_count = 0
    /\ fail_log = <<>>

batchInputs == <<variant, image_files, transform_fails, transform_hangs, max_workers>>
otherThanBatch == <<prog, bboxVars, rng, splitVars, yoloVars>>

\* lines 64-88 (50-75): listing, the empty-folder return, counters cleared
PfStart ==
    /\ prog = "batch"
    /\ pf_pc = "start"
    /\ pf_pc' = IF Len(image_files) = 0 THEN "done" ELSE "submit"
    /\ success_count' = 0
    /\ fail_count' = 0
    /\ UNCHANGED <<batchInputs, output_files, submit_ix, futures, collected, fail_log,
                   otherThanBatch>>

\* the skip of remove_background_ai.py 86-88; the threshold variant has none
Skips(name) == variant = "ai" /\ OutputFile(name) \in output_files

\* one turn of the submission loop (94-98; 81-91)
PfSubmit ==
    /\ prog = "batch"
    /\ pf_pc = "submit"
    /\ submit_ix <= Len(image_files)
    /\ IF Skips(image_files[submit_ix])
       THEN /\ success_count' = success_count + 1
            /\ UNCHANGED futures
       ELSE /\ futures' = [futures EXCEPT ![submit_ix] = "queued"]
            /\ UNCHANGED success_count
    /\ submit_ix' = submit_ix + 1
    /\ pf_pc' = IF submit_ix = Len(image_files) THEN "collect" ELSE "submit"
    /\ UNCHANGED <<batchInputs, output_files, collected, fail_count, fail_log, otherThanBatch>>

Running == {i \in DOMAIN futures : futures[i] = "running"}

\* a pool thread takes a queued work item (ThreadPoolExecutor(max_workers))
WorkerStart(i) ==
    /\ prog = "batch"
    /\ futures[i] = "queued"
    /\ Cardinality(Running) < max_workers
    /\ futures' = [futures EXCEPT ![i] = "running"]
    /\ UNCHANGED <<batchInputs, output_files, pf_pc, submit_ix, collected, success_count,
                   fail_count, fail_log, otherThanBatch>>

\* the transform lets its exception out of the worker
TransformResultUncaught(name) == IF name \in transform_fails THEN "raised" ELSE "ok"

\* try: ... return True, image_path / except Exception: return False, ...  (24-51; 23-38)
TransformResult(name) == IF name \in transform_fails THEN "failed" ELSE "ok"

\* the worker returns; on success its output file has been written.  Neither
\* remove(input_data) (line 28) nor the pool has a timeout: a call that does not
\* return keeps its thread
WorkerFinish(i) ==
    /\ prog = "batch"
    /\ futures[i] = "running"
    /\ image_files[i] \notin transform_hangs
    /\ futures' = [futures EXCEPT ![i] = TransformResult(image_files[i])]
    /\ output_files' = IF TransformResult(image_files[i]) = "ok"
                       THEN output_files \cup {OutputFile(image_files[i])}
                       ELSE output_files
    /\ UNCHANGED <<batchInputs, pf_pc, submit_ix, collected, success_count, fail_count,
                   fail_log, otherThanBatch>>

\* one turn of the as_completed loop (101-107; 95-102)
PfCollect(i) ==
    /\ prog = "batch"
    /\ pf_pc = "collect"
    /\ i \notin collected
    /\ futures[i] \in {"ok", "failed", "raised"}
    /\ collected' = collected \cup {i}
    /\ CASE futures[i] = "ok" ->
              /\ success_count' = success_count + 1
              /\ UNCHANGED <<fail_count, fail_log, pf_pc>>
         [] futures[i] = "failed" ->
              /\ fail_count' = fail_count + 1
              /\ fail_log' = Append(fail_log, image_files[i])
              /\ UNCHANGED <<success_count, pf_pc>>
         [] OTHER ->                                   \* future.result() re-raises
              /\ pf_pc' = "raised"
              /\ UNCHANGED <<success_count, fail_count, fail_log>>
    /\ UNCHANGED <<batchInputs, output_files, submit_ix, futures, otherThanBatch>>

Submitted == {i \in DOMAIN futures : futures[i] # "none"}

\* every future yielded: the pool is shut down and the counts returned (116-119; 111-114)
PfReturn ==
    /\ prog = "batch"
    /\ pf_pc = "collect"
    /\ collected = Submitted
    /\ pf_pc' = "done"
    /\ UNCHANGED <<batchInputs, output_files, submit_ix, futures, collected, success_count,
                   fail_count, fail_log, otherThanBatch>>

BatchNext ==
    \/ PfStart
    \/ PfSubmit
    \/ \E i \in DOMAIN futures : WorkerStart(i)
    \/ \E i \in DOMAIN futures : WorkerFinish(i)
    \/ \E i \in DOMAIN futures : PfCollect(i)
    \/ PfReturn

----------------------------------------------------------------------------
(* get_bounding_box_from_alpha called on one image                         *)

InitBBox ==
    /\ image_path \in Images
    /\ bbox = Unset

IdleBBox ==
    /\ image_path = CorruptImage
    /\ bbox = Unset

AnalyzeImage ==
    /\ prog = "bbox"
    /\ bbox = Unset
    /\ bbox' = GetBoundingBoxFromAlpha(image_path)
    /\ UNCHANGED <<prog, image_path, batchVars, rng, splitVars, yoloVars>>

BBoxNext == AnalyzeImage

----------------------------------------------------------------------------
(* Specifications: one script per behaviour.                               *)

InitBBoxProg  == prog = "bbox"  /\ InitBBox /\ IdleBatch /\ IdleSplit /\ IdleYolo /\ rng = 0
InitBatchProg == prog = "batch" /\ IdleBBox /\ InitBatch /\ IdleSplit /\ IdleYolo /\ rng = 0
InitSplitProg == prog = "split" /\ IdleBBox /\ IdleBatch /\ InitSplit /\ IdleYolo /\ rng \in FreshRng
InitYoloProg  == prog = "yolo"  /\ IdleBBox /\ IdleBatch /\ IdleSplit /\ InitYolo /\ rng \in FreshRng
InitYoloSeedsProg == prog = "yolo" /\ IdleBBox /\ IdleBatch /\ IdleSplit /\ InitYoloSeeds /\ rng \in FreshRng
InitMattingProg == prog = "batch" /\ IdleBBox /\ InitMatting /\ IdleSplit /\ IdleYolo /\ rng = 0

\* the analyzer alone
SpecBBox == InitBBoxProg /\ [][BBoxNext]_vars

\* one process_folder run
SpecBatch == InitBatchProg /\ [][BatchNext]_vars

\* one process_folder run of remove_background_ai.py, the matting call free to hang
SpecMatting == InitMattingProg /\ [][BatchNext]_vars

\* the splitting and assembling scripts
DataNext == SplitNext \/ YoloNext
SpecData == (InitSplitProg \/ InitYoloProg) /\ [][DataNext]_vars

\* the same scripts run again after the source folders were changed
RestageNext ==
    \/ DataNext
    \/ \E n \in ImageNames, k \in 1 .. MaxImages : SplitAddImage(n, k)
    \/ \E c \in ClassSet, f \in FolderContents : YoloRestage(c, f)
SpecRestage == (InitSplitProg \/ InitYoloSeedsProg) /\ [][RestageNext]_vars

Init == InitBBoxProg \/ InitBatchProg \/ InitMattingProg \/ InitSplitProg \/ InitYoloSeedsProg
Next == BBoxNext \/ BatchNext \/ RestageNext
Spec == Init /\ [][Next]_vars

----------------------------------------------------------------------------
(* Properties.                                                             *)

\* ---- process_folder

N == Len(image_files)
\* the submitted inputs whose transform fails
FailedItems == {i \in DOMAIN image_files : futures[i] # "none" /\ image_files[i] \in transform_fails}
K == Cardinality(FailedItems)
Occurrences(x, e) == Cardinality({i \in DOMAIN x : x[i] = e})

\* C1: a process_folder run over N files of which K transforms fail never lets an
\* exception out and never gets stuck before returning; it returns
\* succeeded = N - K and failed = K, and the failure output names each of the K
\* failing inputs exactly once and nothing else.
C1_BatchAccounting ==
    prog = "batch" =>
        /\ pf_pc # "raised"
        /\ pf_pc # "done" => ENABLED BatchNext
        /\ pf_pc = "done" =>
              /\ success_count = N - K
              /\ fail_count = K
              /\ Len(fail_log) = K
              /\ \A i \in FailedItems : Occurrences(fail_log, image_files[i]) = 1

\* a finished run of three inputs on two workers, two of them failing and
\* reported in the order opposite to their submission
C1_Witness ==
    /\ prog = "batch"
    /\ pf_pc = "done"
    /\ max_workers = 2
    /\ N = 3
    /\ K = 2
    /\ success_count = 1
    /\ \E i, j \in FailedItems : i < j /\ fail_log = <<image_files[j], image_files[i]>>

\* the submitted inputs on which the matting call does not return
HungItems == {i \in Submitted : image_files[i] \in transform_hangs}

\* C11: in a learned-matting run a transform call that never returns does not
\* stall the batch: while process_folder has not returned some step of the run
\* can still be taken, and when it has returned every item whose call hung is
\* counted as failed and reported once.
C11_Original ==
    (prog = "batch" /\ variant = "ai") =>
        /\ pf_pc # "done" => ENABLED BatchNext
        /\ pf_pc = "done" =>
              /\ fail_count = K + Cardinality(HungItems)
              /\ \A i \in HungItems : Occurrences(fail_log, image_files[i]) = 1

\* the inputs the submission loop has passed over without submitting them
Skipped == {i \in DOMAIN futures : i < submit_ix /\ futures[i] = "none"}
\* how many times this run has written the output file of that name
Writes(out) ==
    Cardinality({j \in DOMAIN futures : futures[j] = "ok" /\ OutputFile(image_files[j]) = out})
\* the submission loop considers an input whose output file exists
ConsidersPresent ==
    /\ pf_pc = "submit"
    /\ submit_ix' = submit_ix + 1
    /\ OutputFile(image_files[submit_ix]) \in output_files

SkipNotSubmitted ==
    ConsidersPresent =>
        /\ futures'[submit_ix] = "none"
        /\ success_count' = success_count + 1
        /\ output_files' = output_files
SkippedNeverRun == \A i \in Skipped : futures'[i] = "none"
SkippedOutputKept ==
    \A i \in Skipped : Writes(OutputFile(image_files[i]))' = Writes(OutputFile(image_files[i]))
SkipAccounting ==
    pf_pc = "done" =>
        /\ success_count = Cardinality(Skipped) + Cardinality({i \in DOMAIN futures : futures[i] = "ok"})
        /\ success_count + fail_count = N

\* C12: in a learned-matting run an input whose output file exists when the
\* submission loop reaches it is not handed to the transform, then or later, and
\* its output file is not written again during the run; it adds exactly one to
\* the succeeded count, and at return succeeded + failed = number of input files.
C12_Original ==
    /\ []((prog = "batch" /\ variant = "ai") => SkipAccounting)
    /\ [][(prog = "batch" /\ variant = "ai") =>
             (SkipNotSubmitted /\ SkippedNeverRun /\ SkippedOutputKept)]_vars

\* two inputs with the same output path
SharedOutput(i, j) == i # j /\ OutputFile(image_files[i]) = OutputFile(image_files[j])

\* C14: in a process_folder run of either variant no two submitted work items
\* have the same output file, and no two workers are at work on the same output
\* file at the same time.
C14_Original ==
    prog = "batch" =>
        /\ \A i, j \in Submitted : ~SharedOutput(i, j)
        /\ \A i, j \in Running : ~SharedOutput(i, j)

\* ---- create_yolo_dataset

\* which images of a class went to train and which to val
Assignment(sp) == [train |-> Range(sp.train_files), val |-> Range(sp.val_files)]

\* C13: for a fixed seed and val_ratio the split of a class depends on that
\* class's own file list only: a run made after the other class's folder was
\* changed assigns the class's images to train and val as the run before did.
C13_Original ==
    (prog = "yolo" /\ restaged # "none") =>
        \A c \in ClassSet \ {restaged} :
            (splits[c].computed /\ prev_splits[c].computed) =>
                Assignment(splits[c]) = Assignment(prev_splits[c])

SourcePaths == {n \in OutNames : yolo_src[n[1]].exists /\ n[2] \in DOMAIN yolo_src[n[1]].files}
SourceImage(n) == yolo_src[n[1]].files[n[2]]
Present(dir) == {n \in DOMAIN dir : dir[n] # NoFile}
FreshOutput == \A s \in SplitSet : Present(before_images[s]) = {}

\* C2: in create_yolo_dataset no failure on one image lets an exception out; the
\* image is listed as failed, every remaining image of every class is still
\* processed and the manifest is still written.
C2_Original ==
    prog = "yolo" =>
        /\ yolo_pc # "raised"
        /\ yolo_pc = "done" => data_yaml # NoFile /\ processed = SourcePaths
        /\ \A n \in processed :
              GetBoundingBoxFromAlpha(SourceImage(n)).kind # "box" => n \in Range(failed_images)

\* C3: in every state during and after create_yolo_dataset on an empty output
\* folder, images/s and labels/s hold the same names for each split s, and an
\* image whose annotation failed has no file in the corpus.
C3_Original ==
    (prog = "yolo" /\ FreshOutput) =>
        /\ \A s \in SplitSet : Present(out_images[s]) = Present(out_labels[s])
        /\ \A n \in Range(failed_images) : \A s \in SplitSet :
              out_images[s][n] = NoFile /\ out_labels[s][n] = NoFile

\* the place of a class name in alphabetical order, from its initial letter
Initial(c) == CASE c = "diseased" -> 4 [] c = "healthy" -> 8
AlphabeticalRank(c) == Cardinality({d \in ClassSet : Initial(d) < Initial(c)})

LabelsAgree ==
    \A s \in SplitSet : \A n \in OutNames :
        out_labels[s][n] # NoFile =>
            /\ out_labels[s][n].class_id = AlphabeticalRank(n[1])
            /\ data_yaml # NoFile => data_yaml.names[out_labels[s][n].class_id] = n[1]

\* C6: the class index of every label file is the index of the image's class in
\* the manifest's names and is the class's alphabetical rank, whatever the order of
\* the class loop; and the manifest is written only once the class loop is over.
C6_ClassIndexAgreement ==
    /\ [](prog = "yolo" => LabelsAgree)
    /\ [][data_yaml' # data_yaml =>
             yolo_pc = "classes" /\ class_ix > Len(ClassLoop) /\ queue = <<>>]_vars

\* a finished first run that wrote the manifest and a label of each class
C6_Witness ==
    /\ prog = "yolo"
    /\ yolo_pc = "done"
    /\ FreshOutput
    /\ data_yaml # NoFile
    /\ \E s, t \in SplitSet : \E i, j \in 1 .. MaxFiles :
          out_labels[s][<<"healthy", i>>] # NoFile /\ out_labels[t][<<"diseased", j>>] # NoFile

\* C7: when a class folder is missing the run stops before any image is
\* processed: nothing is copied, no label or manifest is written, and the run
\* does not report completion.
C7_Original ==
    (prog = "yolo" /\ run_no = 1 /\ \E c \in ClassSet : ~yolo_src[c].exists) =>
        /\ processed = {}
        /\ out_images = before_images
        /\ data_yaml = NoFile
        /\ yolo_pc # "done"

\* ---- the split

SameInputs(a, b) == a.images = b.images /\ a.val_ratio = b.val_ratio /\ a.seed = b.seed

IsFloor(k, total, ratio) == k * 100 <= total * ratio /\ total * ratio < (k + 1) * 100

IsSplitOf(items, train, val, ratio) ==
    /\ IsFloor(Len(val), Len(items), ratio)
    /\ Len(train) = Len(items) - Len(val)
    /\ Range(train) \cup Range(val) = Range(items)
    /\ Range(train) \cap Range(val) = {}
    /\ Distinct(train) /\ Distinct(val)

SourcesInPlace == \A n \in Range(sd_listing) : sd_source[n] = "fresh"

SplitDestinationsKept ==
    /\ \A n \in ImageNames : sd_before.train[n] # Absent => sd_train[n] = sd_before.train[n]
    /\ \A n \in ImageNames : sd_before.val[n] # Absent => sd_val[n] = sd_before.val[n]

\* C10 as claimed: the source files stay in place and a destination file present
\* before the run keeps its content, in split_dataset and in process_image.
C10_Original ==
    /\ SourcesInPlace
    /\ SplitDestinationsKept
    /\ \A s \in SplitSet : \A n \in OutNames :
          before_images[s][n] # NoFile => out_images[s][n] = before_images[s][n]

\* C10 amended: split_dataset leaves its source files in place and leaves a
\* destination file present before the run untouched; process_image has no such
\* check: an image file of the corpus is either as it was before the run or the
\* copy of its source image.
C10_Amended ==
    /\ SourcesInPlace
    /\ SplitDestinationsKept
    /\ \A s \in SplitSet : \A n \in OutNames :
          out_images[s][n] \in {before_images[s][n]} \cup
                               (IF n \in SourcePaths THEN {SourceImage(n)} ELSE {})

\* split_dataset assigned to the train folder an image whose name was already there
C10_Witness ==
    /\ prog = "split"
    /\ \E i \in DOMAIN sd_calls : \E n \in Range(sd_calls[i].train_images) :
          sd_before.train[n] = "stale" /\ sd_train[n] = "stale" /\ sd_source[n] = "fresh"

\* C15: after any sequence of split_dataset runs over one source folder into the
\* same train and val folders, with any seeds and ratios and with images added
\* to the source between runs, no file name is in both the train folder and
\* the val folder.
C15_Original ==
    (prog = "split" /\ sd_calls # <<>>) =>
        \A n \in ImageNames : sd_train[n] = Absent \/ sd_val[n] = Absent

\* ---- get_bounding_box_from_alpha

Analysed == prog = "bbox" /\ bbox # Unset

\* the mask of the claim: opacity where there is an alpha channel, bright pixels
\* counted as background where there is none
NoForegroundAsClaimed(img) ==
    IF img.channels = 4
    THEN \A c \in DOMAIN img.px : img.px[c].a = 0
    ELSE \A c \in DOMAIN img.px : Gray(img.px[c]) = 255

\* C8: a decodable image with no foreground pixel (fully transparent, or uniformly
\* bright without an alpha channel) yields None, and a returned region never has
\* zero width or height.
C8_Original ==
    (Analysed /\ image_path.decodable /\ image_path.channels \in {3, 4}) =>
        /\ NoForegroundAsClaimed(image_path) => bbox = None
        /\ bbox.kind = "box" => FLt(Frac(0, 1), bbox.width) /\ FLt(Frac(0, 1), bbox.height)

ForegroundPixels == Foreground(AlphaOf(image_path))

\* C9: when the mask has a foreground pixel the region returned is the smallest
\* box holding every foreground pixel of every blob, in fractions of the image's
\* width and height, and lies within [0, 1] on both axes.
C9_TightBox ==
    (Analysed /\ image_path.decodable /\ image_path.channels \in {3, 4}
              /\ ForegroundPixels # {}) =>
        LET xs     == {c[1] : c \in ForegroundPixels}
            ys     == {c[2] : c \in ForegroundPixels}
            left   == FSub(bbox.x_center, FHalf(bbox.width))
            right  == FAdd(bbox.x_center, FHalf(bbox.width))
            top    == FSub(bbox.y_center, FHalf(bbox.height))
            bottom == FAdd(bbox.y_center, FHalf(bbox.height))
        IN  /\ bbox.kind = "box"
            /\ FEq(left, Frac(SetMin(xs), image_path.w))
            /\ FEq(right, Frac(SetMax(xs) + 1, image_path.w))
            /\ FEq(top, Frac(SetMin(ys), image_path.h))
            /\ FEq(bottom, Frac(SetMax(ys) + 1, image_path.h))
            /\ FLe(Frac(0, 1), left) /\ FLe(right, Frac(1, 1))
            /\ FLe(Frac(0, 1), top) /\ FLe(bottom, Frac(1, 1))

\* an analysed image whose foreground is in two blobs, the box not the whole image
C9_Witness ==
    /\ Analysed
    /\ bbox.kind = "box"
    /\ Cardinality(FindContours(AlphaOf(image_path))) = 2
    /\ FLt(bbox.width, Frac(1, 1))

=============================================================================
